---- MODULE Spec2Model ----
(***************************************************************************)
(* Model of the WebSocket/REST coordination server (server/index.js).      *)
(*                                                                         *)
(* JavaScript values are tagged tuples: <<"undefined">>, <<"null">>,       *)
(* <<"string", s>> and <<"object", members>> with members a sequence of    *)
(* <<key, value>> pairs.  A JSON text is represented by the value it       *)
(* denotes; JSON.parse and JSON.stringify are modelled by what they do to  *)
(* that value (syntax errors, dropped undefined members).                  *)
(***************************************************************************)
EXTENDS Integers, Sequences, FiniteSets, TLC

\* ------------------------------------------------------------------ bounds
MaxConns == 2      \* sockets accepted during a run
MaxCalls == 2      \* backend calls issued during a run
MaxTime  == 0      \* the millisecond clock runs from 0 to MaxTime

\* ------------------------------------------------------- program constants
RecognizeTimeout == 10000
QueryTimeout     == 30000
CONNECTING == 0
OPEN    == 1
CLOSING == 2
CLOSED  == 3

\* ---------------------------------------------------------- JS value model
Undefined == <<"undefined">>
Null      == <<"null">>
Str(s)    == <<"string", s>>
Obj(m)    == <<"object", m>>
SyntaxError == <<"SyntaxError">>

\* obj.key: the member's value, undefined when the member is absent
Get(o, k) ==
  IF \E i \in 1..Len(o[2]) : o[2][i][1] = k
  THEN LET i == CHOOSE j \in 1..Len(o[2]) : o[2][j][1] = k IN o[2][i][2]
  ELSE Undefined

\* JSON.stringify of an object literal: members whose value is undefined are
\* omitted from the text, every other member is written in order.
JSONstringify(o) ==
  Obj(SelectSeq(o[2], LAMBDA p : p[2] # Undefined))

\* The raw texts a client may put on the wire.
RawMessages ==
  { "not json",
    "null",
    "{\"image\":\"AAA\"}",
    "{\"type\":\"ping\"}",
    "{\"type\":\"frame\",\"image\":\"AAA\"}",
    "{\"type\":\"frame\"}",
    "{\"type\":\"chat\",\"query\":\"Who?\"}",
    "{\"type\":\"chat\",\"query\":\"\"}" }

\* JSON.parse on those texts.
JSONparse(msg) ==
  CASE msg = "null" -> Null
    [] msg = "{\"image\":\"AAA\"}" -> Obj(<< <<"image", Str("AAA")>> >>)
    [] msg = "{\"type\":\"ping\"}" -> Obj(<< <<"type", Str("ping")>> >>)
    [] msg = "{\"type\":\"frame\",\"image\":\"AAA\"}" ->
         Obj(<< <<"type", Str("frame")>>, <<"image", Str("AAA")>> >>)
    [] msg = "{\"type\":\"frame\"}" -> Obj(<< <<"type", Str("frame")>> >>)
    [] msg = "{\"type\":\"chat\",\"query\":\"Who?\"}" ->
         Obj(<< <<"type", Str("chat")>>, <<"query", Str("Who?")>> >>)
    [] msg = "{\"type\":\"chat\",\"query\":\"\"}" ->
         Obj(<< <<"type", Str("chat")>>, <<"query", Str("")>> >>)
    [] OTHER -> SyntaxError

\* ------------------------------------------------------------ the backends
\* Response bodies the services may answer with (opaque to the server).
Bodies ==
  { Obj(<< <<"matches", Str("Alice")>> >>),
    Str("") }

\* err.message of a call rejected by the transport or by a non-2xx status.
BackendErrors == { "Request failed with status code 500" }

\* err.message axios gives when the configured timeout elapses.
TimeoutMessage(ms) == "timeout of " \o ToString(ms) \o "ms exceeded"

Kinds == {"recognition", "chat"}

TimeoutOf(kind) == IF kind = "recognition" THEN RecognizeTimeout ELSE QueryTimeout

\* both lanes tagging their messages 'recognition'
ResponseTypeSame(kind) == "recognition"

\* type tag of the message the handlers of a call write
ResponseType(kind) == IF kind = "recognition" THEN "recognition" ELSE "chat_response"

VARIABLES
  now,         \* Date.now(), a non-decreasing clock
  ids,         \* ids[w]: the id computed in the connection handler of socket w
  clients,     \* the clients Map, as a set of <<id, socket>> entries
  readyState,  \* readyState[w] of every accepted socket
  calls,       \* the axios calls issued so far, in order of issue
  outbox,      \* outbox[w]: what ws.send wrote on socket w, in order
  lastDropped  \* the socket whose handler has just dropped a message, else 0

vars == <<now, ids, clients, readyState, calls, outbox, lastDropped>>

\* The REST routes, the live-recognition client and the chat widget are
\* modelled further down, each with state of its own.
VARIABLES
  http,        \* REST: the HTTP requests received, each with its proxied call
               \* and the responses written for it
  logs,        \* live client: the logs state, newest line first
  wsStatus,    \* live client: the wsStatus state
  lws,         \* live client: readyState of wsRef.current
  mounted,     \* live client: the component is mounted (videoRef.current is set)
  starts,      \* live client: starts[s] is where invocation s of start() stands
  timers,      \* live client: the intervals set and not cleared, each named
               \* by the invocation of start() that set it
  captureIntervalRef,  \* live client: captureIntervalRef.current, 0 for null
  isRunning,   \* live client: the isRunning state
  srcObject,   \* live client: videoRef.current.srcObject, 0 for none, else the
               \* invocation of start() that obtained the stream
  liveTracks,  \* live client: the streams whose tracks have not been stopped
  framesSent,  \* live client: frame messages sent on the socket
  halted,      \* live client: stop() or the unmount cleanup has run and
               \* start() has not been invoked since
  cws,         \* chat widget: readyState of its socket
  messages,    \* chat widget: the messages state
  input,       \* chat widget: the input state
  waiting,     \* chat widget: the waiting state
  shown,       \* chat widget: input and waiting as of the last render, which
               \* is what send() closes over
  chatSent,    \* chat widget: chat messages transmitted on the socket
  chatRecv     \* chat widget: chat_response messages received

restVars == <<http>>
liveVars == <<logs, wsStatus, lws, mounted, starts, timers, captureIntervalRef,
              isRunning, srcObject, liveTracks, framesSent, halted>>
chatVars == <<cws, messages, input, waiting, shown, chatSent, chatRecv>>

\* a step of one component leaves the others alone
ServerOnly == UNCHANGED <<restVars, liveVars, chatVars>>
RestOnly == UNCHANGED <<vars, liveVars, chatVars>>
LiveOnly == UNCHANGED <<vars, restVars, chatVars>>
ChatOnly == UNCHANGED <<vars, restVars, liveVars>>

Sockets == 1..Len(readyState)

Init ==
  /\ now = 0
  /\ ids = <<>>
  /\ clients = {}
  /\ readyState = <<>>
  /\ calls = <<>>
  /\ outbox = <<>>
  /\ lastDropped = 0

\* ------------------------------------------------------ connection handler
\* Math.random().toString(36).slice(2), drawn from a small set
Rand == {"k3f", "z9q"}

\* const id = Date.now() + Math.random().toString(36).slice(2)
\* (number + string: the decimal digits of the clock followed by the suffix)
IdOf(t, r) == ToString(t) \o r

\* clients.set(id, ws): a Map holds one entry per key
MapSet(m, k, v) == {e \in m : e[1] # k} \cup {<<k, v>>}

\* clients.delete(id)
MapDelete(m, k) == {e \in m : e[1] # k}

\* wss.on('connection'): the next socket is accepted in state OPEN
Connection ==
  /\ Len(readyState) < MaxConns
  /\ \E t \in now..MaxTime, r \in Rand :
       LET w == Len(readyState) + 1
           id == IdOf(t, r)
       IN /\ now' = t
          /\ ids' = Append(ids, id)
          /\ clients' = MapSet(clients, id, w)
          /\ readyState' = Append(readyState, OPEN)
          /\ outbox' = Append(outbox, <<>>)
          /\ lastDropped' = 0
  /\ UNCHANGED calls

\* --------------------------------------------------------- message handler
\* axios.post(url, body, {timeout}): the call as issued
NewCall(w, kind, body) ==
  [ws |-> w, kind |-> kind, req |-> JSONstringify(body),
   result |-> <<"pending">>, late |-> FALSE]

\* a handler that forwards nothing while a call of its connection is pending
TryBlockSerial(w, msg) ==
  LET data == JSONparse(msg) IN
  IF data = SyntaxError
    THEN [calls |-> calls, thrown |-> "SyntaxError"]
  ELSE IF data = Null
    THEN [calls |-> calls, thrown |-> "TypeError"]
  ELSE IF \E c \in 1..Len(calls) : calls[c].ws = w /\ calls[c].result = <<"pending">>
    THEN [calls |-> calls, thrown |-> "none"]
  ELSE IF Get(data, "type") = Str("frame")
    THEN [calls |-> Append(calls, NewCall(w, "recognition",
                      Obj(<< <<"image", Get(data, "image")>> >>))),
          thrown |-> "none"]
  ELSE IF Get(data, "type") = Str("chat")
    THEN [calls |-> Append(calls, NewCall(w, "chat",
                      Obj(<< <<"query", Get(data, "query")>> >>))),
          thrown |-> "none"]
  ELSE [calls |-> calls, thrown |-> "none"]

\* the try block of ws.on('message') on the text msg: the calls after it has
\* run and the exception it throws ("none" when it completes)
TryBlock(w, msg) ==
  LET data == JSONparse(msg) IN
  IF data = SyntaxError
    THEN [calls |-> calls, thrown |-> "SyntaxError"]     \* JSON.parse throws
  ELSE IF data = Null
    THEN [calls |-> calls, thrown |-> "TypeError"]       \* data.type of null
  ELSE IF Get(data, "type") = Str("frame")
    THEN [calls |-> Append(calls, NewCall(w, "recognition",
                      Obj(<< <<"image", Get(data, "image")>> >>))),
          thrown |-> "none"]
  ELSE IF Get(data, "type") = Str("chat")
    THEN [calls |-> Append(calls, NewCall(w, "chat",
                      Obj(<< <<"query", Get(data, "query")>> >>))),
          thrown |-> "none"]
  ELSE [calls |-> calls, thrown |-> "none"]

\* a catch clause that swallows syntax errors only and rethrows the rest
CatchSyntaxErrorOnly(e) == IF e = "SyntaxError" THEN "none" ELSE e

\* catch (e) { console.error(...) }: the exception that leaves the handler
CatchClause(e) == "none"

\* an exception that leaves the async handler is an unhandled rejection: the
\* process exits, every socket is gone
Exit == [w \in Sockets |-> CLOSED]

\* ws.on('message'): only an open socket emits messages
Message(w, msg) ==
  LET r == TryBlock(w, msg)
      escaped == IF r.thrown = "none" THEN "none" ELSE CatchClause(r.thrown)
      issued == Len(r.calls) > Len(calls)
  IN /\ readyState[w] = OPEN
     /\ Len(r.calls) <= MaxCalls
     /\ calls' = r.calls
     /\ IF escaped = "none"
        THEN UNCHANGED <<readyState, clients>>
        ELSE readyState' = Exit /\ clients' = {}
     /\ lastDropped' = IF issued THEN 0 ELSE w
     /\ UNCHANGED <<now, ids, outbox>>

\* ------------------------------------------------- completion of the calls
\* a handler reading a socket variable shared by all connections: the socket
\* accepted last
WsShared(c) == Len(readyState)

\* the socket the .then/.catch closures of call c captured
WsOf(c) == calls[c].ws

\* ws.send(text) in a handler of call c
Send(w, c, text) == [outbox EXCEPT ![w] = Append(@, [data |-> text, call |-> c])]

\* a .then handler that writes without looking at readyState
ThenHandlerUnguarded(c, body) ==
  Send(calls[c].ws, c,
       JSONstringify(Obj(<< <<"type", Str(ResponseType(calls[c].kind))>>,
                            <<"payload", body>> >>)))

\* a .then handler that throws after its send, so that the chained .catch
\* writes an error for the same call
ThenHandlerThrows(c, body) ==
  LET ws == calls[c].ws
      ok == [data |-> JSONstringify(Obj(<< <<"type", Str(ResponseType(calls[c].kind))>>,
                                           <<"payload", body>> >>)),
             call |-> c]
      ko == [data |-> JSONstringify(Obj(<< <<"type", Str(ResponseType(calls[c].kind))>>,
                                           <<"error", Str("thrown")>> >>)),
             call |-> c]
  IN IF readyState[ws] = 1
     THEN [outbox EXCEPT ![ws] = @ \o <<ok, ko>>]
     ELSE outbox

\* a .then handler that sends `resp.data || undefined` as the payload
ThenHandlerTruthy(c, body) ==
  LET ws == calls[c].ws IN
  IF readyState[ws] = 1
  THEN Send(ws, c, JSONstringify(Obj(<< <<"type", Str(ResponseType(calls[c].kind))>>,
                     <<"payload", IF body = Str("") THEN Undefined ELSE body>> >>)))
  ELSE outbox

\* .then(resp => ...): the outbox after the handler
ThenHandler(c, body) ==
  LET ws == WsOf(c) IN
  IF readyState[ws] = 1
  THEN Send(ws, c, JSONstringify(Obj(<< <<"type", Str(ResponseType(calls[c].kind))>>,
                                        <<"payload", body>> >>)))
  ELSE outbox

\* a .catch handler that also writes a payload member
CatchHandlerWithPayload(c, message) ==
  LET ws == calls[c].ws IN
  IF readyState[ws] = 1
  THEN Send(ws, c, JSONstringify(Obj(<< <<"type", Str(ResponseType(calls[c].kind))>>,
                                        <<"payload", Null>>,
                                        <<"error", Str(message)>> >>)))
  ELSE outbox

\* a .catch handler that reports the error to every open socket
CatchHandlerBroadcast(c, message) ==
  [w \in Sockets |->
     IF readyState[w] = 1
     THEN Append(outbox[w],
                 [data |-> JSONstringify(Obj(<< <<"type", Str(ResponseType(calls[c].kind))>>,
                                                <<"error", Str(message)>> >>)),
                  call |-> c])
     ELSE outbox[w]]

\* .catch(err => ...): the outbox after the handler
CatchHandler(c, message) ==
  LET ws == WsOf(c) IN
  IF readyState[ws] = 1
  THEN Send(ws, c, JSONstringify(Obj(<< <<"type", Str(ResponseType(calls[c].kind))>>,
                                        <<"error", Str(message)>> >>)))
  ELSE outbox

Pending(c) == calls[c].result = <<"pending">>

\* the backend answers with a 2xx status: the promise resolves
Respond(c, body) ==
  /\ Pending(c)
  /\ calls' = [calls EXCEPT ![c].result = <<"resolved", body>>]
  /\ outbox' = ThenHandler(c, body)
  /\ lastDropped' = 0
  /\ UNCHANGED <<now, ids, clients, readyState>>

\* the backend is unreachable or answers with an error status
Fail(c, message) ==
  /\ Pending(c)
  /\ calls' = [calls EXCEPT ![c].result = <<"rejected", message>>]
  /\ outbox' = CatchHandler(c, message)
  /\ lastDropped' = 0
  /\ UNCHANGED <<now, ids, clients, readyState>>

\* the timeout given to axios.post elapses first: the request is aborted and
\* the promise rejects
Timeout(c) ==
  LET message == TimeoutMessage(TimeoutOf(calls[c].kind)) IN
  /\ Pending(c)
  /\ calls' = [calls EXCEPT ![c].result = <<"timeout", message>>]
  /\ outbox' = CatchHandler(c, message)
  /\ lastDropped' = 0
  /\ UNCHANGED <<now, ids, clients, readyState>>

\* the backend's answer to an aborted request arrives: the promise is settled
\* already, no handler runs
LateResponse(c) ==
  /\ calls[c].result[1] = "timeout"
  /\ ~calls[c].late
  /\ calls' = [calls EXCEPT ![c].late = TRUE]
  /\ lastDropped' = 0
  /\ UNCHANGED <<now, ids, clients, readyState, outbox>>

\* ----------------------------------------------------------------- closing
\* the closing handshake starts (close frame received): readyState CLOSING
BeginClose(w) ==
  /\ readyState[w] = OPEN
  /\ readyState' = [readyState EXCEPT ![w] = CLOSING]
  /\ lastDropped' = 0
  /\ UNCHANGED <<now, ids, clients, calls, outbox>>

\* the socket is closed and 'close' is emitted: ws.on('close')
Close(w) ==
  /\ readyState[w] \in {OPEN, CLOSING}
  /\ readyState' = [readyState EXCEPT ![w] = CLOSED]
  /\ clients' = MapDelete(clients, ids[w])
  /\ lastDropped' = 0
  /\ UNCHANGED <<now, ids, calls, outbox>>

Next ==
  \/ /\ Connection
     /\ ServerOnly
  \/ /\ \E w \in Sockets, msg \in RawMessages : Message(w, msg)
     /\ ServerOnly
  \/ /\ \E c \in 1..Len(calls), body \in Bodies : Respond(c, body)
     /\ ServerOnly
  \/ /\ \E c \in 1..Len(calls), message \in BackendErrors : Fail(c, message)
     /\ ServerOnly
  \/ /\ \E c \in 1..Len(calls) : Timeout(c)
     /\ ServerOnly
  \/ /\ \E c \in 1..Len(calls) : LateResponse(c)
     /\ ServerOnly
  \/ /\ \E w \in Sockets : BeginClose(w)
     /\ ServerOnly
  \/ /\ \E w \in Sockets : Close(w)
     /\ ServerOnly

\* ================================================== REST passthrough routes
\* (server/index.js, app.get / app.post)
MaxRequests == 2   \* HTTP requests received during a run

RestInit == http = <<>>

Routes == {"/register", "/api/metadata/last-registered"}

\* req.body of a POST /register
RegisterBodies ==
  { Obj(<< <<"name", Str("Alice")>>, <<"image", Str("AAA")>> >>),
    Obj(<<>>) }

\* the call the handler of a route issues to the recognition service
Upstream(route, body) ==
  IF route = "/register"
  THEN [method |-> "POST", url |-> "http://localhost:8001/register", data |-> body]
  ELSE [method |-> "GET", url |-> "http://localhost:8001/metadata/last", data |-> Undefined]

\* app.get / app.post: the handler runs up to its await
HttpRequest(route, body) ==
  /\ Len(http) < MaxRequests
  /\ route = "/register" => body \in RegisterBodies
  /\ route # "/register" => body = Undefined
  /\ http' = Append(http, [route |-> route, up |-> Upstream(route, body),
                           call |-> <<"pending">>, res |-> <<>>])

\* a catch block answering with status 200
ProxyCatchOk(i, message) ==
  Append(http[i].res,
         [status |-> 200, body |-> JSONstringify(Obj(<< <<"error", Str(message)>> >>))])

\* res.json(r.data): the responses of request i after the try block
ProxyThen(i, data) ==
  Append(http[i].res, [status |-> 200, body |-> data])

\* res.status(500).json({ error: e.message })
ProxyCatch(i, message) ==
  Append(http[i].res,
         [status |-> 500, body |-> JSONstringify(Obj(<< <<"error", Str(message)>> >>))])

\* the awaited call resolves
HttpRespond(i, data) ==
  /\ http[i].call = <<"pending">>
  /\ http' = [http EXCEPT ![i].call = <<"resolved", data>>,
                          ![i].res = ProxyThen(i, data)]

\* the awaited call rejects
HttpFail(i, message) ==
  /\ http[i].call = <<"pending">>
  /\ http' = [http EXCEPT ![i].call = <<"rejected", message>>,
                          ![i].res = ProxyCatch(i, message)]

RestNext ==
  \/ /\ \E route \in Routes, body \in RegisterBodies \cup {Undefined} :
           HttpRequest(route, body)
     /\ RestOnly
  \/ /\ \E i \in 1..Len(http), data \in Bodies : HttpRespond(i, data)
     /\ RestOnly
  \/ /\ \E i \in 1..Len(http), message \in BackendErrors : HttpFail(i, message)
     /\ RestOnly

\* ================================================ live-recognition client
\* (frontend/src/components/LiveRecognitionTab.js)
\* A log line is <<prefix, detail>>; the time stamp addLog puts in front of
\* every line is left out.
MaxLogLines == 20
MaxLiveEvents == 4   \* socket events are delivered while the log is shorter
MaxStarts == 2       \* invocations of start() during a run
MaxFrames == 2       \* frame messages sent during a run

\* mount: the socket is created, nothing captured yet
LiveInit ==
  /\ logs = <<>> /\ wsStatus = "disconnected"
  /\ lws = CONNECTING
  /\ mounted = TRUE
  /\ starts = <<>>
  /\ timers = {}
  /\ captureIntervalRef = 0
  /\ isRunning = FALSE
  /\ srcObject = 0
  /\ liveTracks = {}
  /\ framesSent = 0
  /\ halted = FALSE

\* the capture state, which the socket's handlers leave alone
captureVars == <<mounted, starts, timers, captureIntervalRef, isRunning,
                 srcObject, liveTracks, framesSent, halted>>

\* ev.data of the messages the socket may deliver
LiveInbound ==
  { Str("not json"),
    JSONstringify(Obj(<< <<"type", Str("recognition")>>,
                         <<"payload", Obj(<< <<"matches", Str("Alice")>> >>)>> >>)),
    JSONstringify(Obj(<< <<"type", Str("recognition")>>,
                         <<"error", Str("Request failed with status code 500")>> >>)),
    JSONstringify(Obj(<< <<"type", Str("chat_response")>>,
                         <<"error", Str("Request failed with status code 500")>> >>)),
    JSONstringify(Obj(<< <<"type", Str("chat_response")>>,
                         <<"payload", Obj(<< <<"answer", Str("Bob")>> >>)>> >>)) }

\* JSON.parse(ev.data) in the browser: the value of an object text, an
\* exception for any other text of LiveInbound
ClientParse(text) == IF text[1] = "object" THEN text ELSE SyntaxError

\* JavaScript truthiness of a value
Truthy(v) == v # Undefined /\ v # Null /\ v # Str("")

\* v.key, undefined on a value without members
Member(v, k) == IF v[1] = "object" THEN Get(v, k) ELSE Undefined

\* setLogs(l => [line, ...l].slice(0, 20))
AddLog(l, line) == SubSeq(<<line>> \o l, 1, IF Len(l) + 1 < MaxLogLines THEN Len(l) + 1 ELSE MaxLogLines)

\* wsRef.current.onmessage: the logs after the handler
OnLiveMessage(text) ==
  LET d == ClientParse(text) IN
  IF d = SyntaxError THEN AddLog(logs, <<"Parse error: ", Str("Unexpected token")>>)
  ELSE IF Get(d, "type") = Str("recognition")
    THEN AddLog(logs, <<"Recognition: ", Get(d, "payload")>>)
  ELSE IF Truthy(Get(d, "error"))
    THEN AddLog(logs, <<"Error: ", Get(d, "error")>>)
  ELSE logs

\* addLog from a handler: a state update of an unmounted component is dropped
Log(line) == IF mounted THEN AddLog(logs, line) ELSE logs

LiveReceive(text) ==
  /\ lws = OPEN
  /\ wsStatus = "connected"
  /\ Len(logs) < MaxLiveEvents
  /\ logs' = OnLiveMessage(text)
  /\ UNCHANGED <<wsStatus, lws, captureVars>>

\* wsRef.current.onopen
LiveOpen ==
  /\ lws = CONNECTING
  /\ lws' = OPEN
  /\ wsStatus' = "connected"
  /\ logs' = AddLog(logs, <<"WebSocket connected", Undefined>>)
  /\ UNCHANGED captureVars

\* wsRef.current.onerror: the connection has failed, the socket is CLOSED
\* when the event is delivered
LiveError ==
  /\ lws \in {CONNECTING, OPEN, CLOSING}
  /\ wsStatus \in {"disconnected", "connected"}
  /\ Len(logs) < MaxLiveEvents
  /\ lws' = CLOSED
  /\ wsStatus' = IF mounted THEN "error" ELSE wsStatus
  /\ logs' = Log(<<"WebSocket error: ", Str("Unknown error")>>)
  /\ UNCHANGED captureVars

\* wsRef.current.onclose
LiveClose ==
  /\ \/ mounted /\ wsStatus \in {"connected", "error"}
     \/ ~mounted /\ lws = CLOSING
  /\ Len(logs) < MaxLiveEvents
  /\ lws' = CLOSED
  /\ wsStatus' = IF mounted THEN "disconnected" ELSE wsStatus
  /\ logs' = Log(<<"WebSocket disconnected", Undefined>>)
  /\ UNCHANGED captureVars

\* --------------------------------------------------- start, stop, unmount
\* getTracks().forEach(t => t.stop()) on the stream the video element shows
StopTracks(tracks, stream) == tracks \ {stream}

\* start() up to the first await; the button is disabled while isRunning
start ==
  /\ mounted /\ ~isRunning
  /\ Len(starts) < MaxStarts
  /\ starts' = Append(starts, "camera")
  /\ logs' = AddLog(logs, <<"Starting video stream...", Undefined>>)
  /\ halted' = FALSE
  /\ UNCHANGED <<wsStatus, lws, mounted, timers, captureIntervalRef, isRunning,
                 srcObject, liveTracks, framesSent>>

\* getUserMedia resolves: start() runs on to the await of the video metadata
CameraGranted(s) ==
  /\ starts[s] = "camera"
  /\ IF ~mounted
     THEN /\ starts' = [starts EXCEPT ![s] = "returned"]   \* !videoRef.current
          /\ UNCHANGED <<logs, srcObject, liveTracks>>
     ELSE /\ starts' = [starts EXCEPT ![s] = "metadata"]
          /\ srcObject' = s
          /\ liveTracks' = liveTracks \cup {s}
          /\ logs' = AddLog(logs, <<"Video stream obtained", Undefined>>)
  /\ UNCHANGED <<wsStatus, lws, mounted, timers, captureIntervalRef, isRunning,
                 framesSent, halted>>

\* start()'s catch clause
StartCatch(s, message) ==
  /\ starts' = [starts EXCEPT ![s] = "failed"]
  /\ logs' = Log(<<"Error starting video: ", Str(message)>>)
  /\ isRunning' = IF mounted THEN FALSE ELSE isRunning

\* getUserMedia rejects
CameraDenied(s) ==
  /\ starts[s] = "camera"
  /\ StartCatch(s, "Permission denied")
  /\ UNCHANGED <<wsStatus, lws, mounted, timers, captureIntervalRef,
                 srcObject, liveTracks, framesSent, halted>>

\* the metadata promise resolves: start() runs to its end and sets the
\* interval.  The promise of a start() whose component was unmounted meanwhile
\* never resolves: onLoaded throws on videoRef.current before resolve.
MetadataLoaded(s) ==
  /\ starts[s] = "metadata"
  /\ mounted
  /\ starts' = [starts EXCEPT ![s] = "done"]
  /\ logs' = AddLog(logs, <<"Video playing", Undefined>>)
  /\ isRunning' = TRUE
  /\ captureIntervalRef' = s
  /\ timers' = timers \cup {s}
  /\ UNCHANGED <<wsStatus, lws, mounted, srcObject, liveTracks, framesSent, halted>>

\* the callback of interval t; the video has its dimensions once the
\* metadata was loaded
Capture(t) ==
  /\ t \in timers
  /\ IF ~mounted
     THEN UNCHANGED <<logs, framesSent>>                   \* !videoRef.current
     ELSE IF lws = OPEN
       THEN /\ framesSent < MaxFrames
            /\ framesSent' = framesSent + 1
            /\ UNCHANGED logs
       ELSE /\ Len(logs) < MaxLiveEvents
            /\ logs' = AddLog(logs, <<"WebSocket not ready: state=", Str(ToString(lws))>>)
            /\ UNCHANGED framesSent
  /\ UNCHANGED <<wsStatus, lws, mounted, starts, timers, captureIntervalRef,
                 isRunning, srcObject, liveTracks, halted>>

\* stop(); the button is disabled unless isRunning
stop ==
  /\ mounted /\ isRunning
  /\ timers' = timers \ {captureIntervalRef}
  /\ captureIntervalRef' = 0
  /\ liveTracks' = StopTracks(liveTracks, srcObject)
  /\ isRunning' = FALSE
  /\ logs' = AddLog(logs, <<"Stopped video stream", Undefined>>)
  /\ halted' = TRUE
  /\ UNCHANGED <<wsStatus, lws, mounted, starts, srcObject, framesSent>>

\* the cleanup of the effect.  React may have detached videoRef before the
\* cleanup runs, in which case the tracks are left running.
Unmount ==
  /\ mounted
  /\ mounted' = FALSE
  /\ lws' = IF lws \in {CONNECTING, OPEN} THEN CLOSING ELSE lws
  /\ timers' = timers \ {captureIntervalRef}
  /\ liveTracks' \in {liveTracks, StopTracks(liveTracks, srcObject)}
  /\ halted' = TRUE
  /\ UNCHANGED <<logs, wsStatus, starts, captureIntervalRef, isRunning,
                 srcObject, framesSent>>

LiveNext ==
  \/ /\ LiveOpen
     /\ LiveOnly
  \/ /\ \E text \in LiveInbound : LiveReceive(text)
     /\ LiveOnly
  \/ /\ LiveError
     /\ LiveOnly
  \/ /\ LiveClose
     /\ LiveOnly
  \/ /\ start
     /\ LiveOnly
  \/ /\ \E s \in 1..Len(starts) : CameraGranted(s)
     /\ LiveOnly
  \/ /\ \E s \in 1..Len(starts) : CameraDenied(s)
     /\ LiveOnly
  \/ /\ \E s \in 1..Len(starts) : MetadataLoaded(s)
     /\ LiveOnly
  \/ /\ \E t \in timers : Capture(t)
     /\ LiveOnly
  \/ /\ stop
     /\ LiveOnly
  \/ /\ Unmount
     /\ LiveOnly

\* ============================================================ chat widget
\* (frontend/src/components/ChatWidget.js)
MaxSends == 2      \* queries put into the message list during a run

\* mount: the socket is created, nothing is rendered but the initial state
ChatInit ==
  /\ cws = CONNECTING
  /\ messages = <<>>
  /\ input = ""
  /\ waiting = FALSE
  /\ shown = [input |-> "", waiting |-> FALSE]
  /\ chatSent = 0
  /\ chatRecv = 0

\* what the user may type
Texts == {"", "Who?"}

\* ev.data of the chat_response messages the server writes
ChatInbound ==
  { JSONstringify(Obj(<< <<"type", Str("chat_response")>>,
                         <<"payload", Obj(<< <<"answer", Str("Bob")>> >>)>> >>)),
    JSONstringify(Obj(<< <<"type", Str("chat_response")>>,
                         <<"payload", Str("")>> >>)),
    JSONstringify(Obj(<< <<"type", Str("chat_response")>>,
                         <<"error", Str("Request failed with status code 500")>> >>)) }

\* the socket opens
ChatSocketOpen ==
  /\ cws = CONNECTING
  /\ cws' = OPEN
  /\ UNCHANGED <<messages, input, waiting, shown, chatSent, chatRecv>>

\* the socket closes (connection refused, server gone, network)
ChatSocketClose ==
  /\ cws \in {CONNECTING, OPEN}
  /\ cws' = CLOSED
  /\ UNCHANGED <<messages, input, waiting, shown, chatSent, chatRecv>>

\* onChange of the input, which is disabled while the render shows waiting
ChatType(text) ==
  /\ ~shown.waiting
  /\ input # text
  /\ input' = text
  /\ UNCHANGED <<cws, messages, waiting, shown, chatSent, chatRecv>>

\* React renders: send is re-created over the current state
ChatRender ==
  /\ shown # [input |-> input, waiting |-> waiting]
  /\ shown' = [input |-> input, waiting |-> waiting]
  /\ UNCHANGED <<cws, messages, input, waiting, chatSent, chatRecv>>

\* send(), with input and waiting as of the last render
ChatSend ==
  /\ Len(messages) < 2 * MaxSends
  /\ IF shown.input = "" \/ shown.waiting
     THEN UNCHANGED <<messages, input, waiting, chatSent>>        \* return
     ELSE /\ messages' = messages \o << [from |-> "user", text |-> Str(shown.input)],
                                        [from |-> "bot", text |-> Str("...")] >>
          /\ waiting' = TRUE
          /\ IF cws = CONNECTING
             THEN UNCHANGED <<input, chatSent>>     \* send throws InvalidStateError
             ELSE /\ chatSent' = IF cws = OPEN THEN chatSent + 1 ELSE chatSent
                  /\ input' = ""
  /\ UNCHANGED <<cws, shown, chatRecv>>

\* d.payload?.answer || d.answer || (d.error ? `Error: ${d.error}` : 'No response')
AnswerOf(d) ==
  IF Truthy(Member(Get(d, "payload"), "answer")) THEN Member(Get(d, "payload"), "answer")
  ELSE IF Truthy(Get(d, "answer")) THEN Get(d, "answer")
  ELSE IF Truthy(Get(d, "error")) THEN Str("Error: " \o Get(d, "error")[2])
  ELSE Str("No response")

\* the setMessages updater of onmessage
PutAnswer(prev, answer) ==
  IF Len(prev) > 0 /\ prev[Len(prev)] = [from |-> "bot", text |-> Str("...")]
  THEN Append(SubSeq(prev, 1, Len(prev) - 1), [from |-> "bot", text |-> answer])
  ELSE Append(prev, [from |-> "bot", text |-> answer])

\* wsRef.current.onmessage: the server answers the queries it was sent
ChatReceive(text) ==
  LET d == ClientParse(text) IN
  /\ cws = OPEN
  /\ chatRecv < chatSent
  /\ chatRecv' = chatRecv + 1
  /\ IF d # SyntaxError /\ Get(d, "type") = Str("chat_response")
     THEN /\ messages' = PutAnswer(messages, AnswerOf(d))
          /\ waiting' = FALSE
     ELSE UNCHANGED <<messages, waiting>>
  /\ UNCHANGED <<cws, input, shown, chatSent>>

ChatNext ==
  \/ /\ ChatSocketOpen
     /\ ChatOnly
  \/ /\ ChatSocketClose
     /\ ChatOnly
  \/ /\ \E text \in Texts : ChatType(text)
     /\ ChatOnly
  \/ /\ ChatRender
     /\ ChatOnly
  \/ /\ ChatSend
     /\ ChatOnly
  \/ /\ \E text \in ChatInbound : ChatReceive(text)
     /\ ChatOnly

\* ========================================================== specifications
\* every component in its initial state
Start == Init /\ RestInit /\ LiveInit /\ ChatInit

\* the WebSocket server
Spec ==
  /\ Start
  /\ [][Next]_vars

\* the REST routes
RestSpec ==
  /\ Start
  /\ [][RestNext]_restVars

\* the live-recognition client
LiveSpec ==
  /\ Start
  /\ [][LiveNext]_liveVars

\* the chat widget
ChatSpec ==
  /\ Start
  /\ [][ChatNext]_chatVars

\* every call settles: the backend answers, fails, or the timeout fires
Settle ==
  \/ \E c \in 1..Len(calls), body \in Bodies : Respond(c, body)
  \/ \E c \in 1..Len(calls), message \in BackendErrors : Fail(c, message)
  \/ \E c \in 1..Len(calls) : Timeout(c)

FairSpec == Spec /\ WF_vars(Settle /\ ServerOnly)

TypeOK ==
  /\ now \in 0..MaxTime
  /\ Len(ids) = Len(readyState) /\ Len(outbox) = Len(readyState)
  /\ \A w \in Sockets : readyState[w] \in {OPEN, CLOSING, CLOSED}
  /\ \A c \in 1..Len(calls) : calls[c].ws \in Sockets /\ calls[c].kind \in Kinds

\* ================================================================ properties
Calls == 1..MaxCalls
Issued(c) == c <= Len(calls)
Settled(c) == Issued(c) /\ ~Pending(c)

\* the entries of all outboxes written by the handlers of call c
EntriesOf(c) ==
  {<<w, i>> \in Sockets \X (1..MaxCalls + 1) :
      i <= Len(outbox[w]) /\ outbox[w][i].call = c}
SentCount(c) == Cardinality(EntriesOf(c))

PendingOf(w, kind) ==
  {c \in 1..Len(calls) : calls[c].ws = w /\ calls[c].kind = kind /\ Pending(c)}

IsFrame(msg) ==
  LET d == JSONparse(msg) IN
  d # SyntaxError /\ d # Null /\ Get(d, "type") = Str("frame")

IsChat(msg) ==
  LET d == JSONparse(msg) IN
  d # SyntaxError /\ d # Null /\ Get(d, "type") = Str("chat")

\* invalid syntax, or a missing or unrecognized type
Undecodable == {msg \in RawMessages : ~IsFrame(msg) /\ ~IsChat(msg)}

\* the request body of call c carries non-empty image data / query text
WellFormed(c) ==
  LET key == IF calls[c].kind = "recognition" THEN "image" ELSE "query"
      v == Get(calls[c].req, key)
  IN v # Undefined /\ v # Null /\ v # Str("")

Registered(w) == <<ids[w], w>> \in clients

\* C1: for every connection and kind at most one request is pending at any
\* time (no Pending -> Pending step)
AtMostOnePendingPerKind ==
  \A w \in Sockets, k \in Kinds : Cardinality(PendingOf(w, k)) <= 1

BusyMessage == Obj(<< <<"type", Str("recognition")>>, <<"error", Str("Busy")>> >>)

\* C2: a frame message arriving while a frame request of the connection is
\* unresolved is not forwarded, the client is sent the recognition failure
\* Busy at once, and the pending request stays as it is
SecondFrameRejectedBusy ==
  [][\A w \in Sockets :
        ((\E msg \in RawMessages : IsFrame(msg) /\ Message(w, msg))
           /\ PendingOf(w, "recognition") # {})
        => /\ calls' = calls
           /\ Len(outbox'[w]) = Len(outbox[w]) + 1
           /\ outbox'[w][Len(outbox'[w])].data = BusyMessage]_vars

\* C3: nothing is written to a connection that has been torn down (its
\* socket is no longer open), whatever the backend does afterwards
NoSendAfterTeardown ==
  [][\A w \in Sockets : readyState[w] # OPEN => outbox'[w] = outbox[w]]_vars

\* a call settled after its connection closed, and nothing was written for it
DroppedAfterClose ==
  \E c \in 1..Len(calls) :
     /\ Settled(c) /\ calls[c].result[1] = "resolved"
     /\ readyState[calls[c].ws] = CLOSED /\ ~Registered(calls[c].ws)
     /\ SentCount(c) = 0

\* one outcome per call: nothing written while pending, at most one message
\* ever, and no message only if the connection is no longer open
OneOutcome(c) ==
  /\ SentCount(c) <= 1
  /\ Pending(c) => SentCount(c) = 0
  /\ (Settled(c) /\ SentCount(c) = 0) => readyState[calls[c].ws] # OPEN

\* C4: every forwarded request eventually settles, and ends either with
\* exactly one outbound message or discarded on a closed connection, never
\* with both and never with two messages
EveryCallOneOutcome ==
  /\ [](\A c \in 1..Len(calls) : OneOutcome(c))
  /\ \A c \in Calls : Issued(c) ~> Settled(c)

\* one call answered with one message while another was discarded
SentAndDiscarded ==
  \E c, d \in 1..Len(calls) :
     /\ Settled(c) /\ SentCount(c) = 1
     /\ Settled(d) /\ SentCount(d) = 0 /\ readyState[calls[d].ws] # OPEN

\* call c was answered on its own connection with a message of its kind
Answered(c) ==
  \E i \in 1..Len(outbox[calls[c].ws]) :
     LET e == outbox[calls[c].ws][i] IN
     e.call = c /\ Get(e.data, "type") = Str(IF calls[c].kind = "recognition"
                                             THEN "recognition" ELSE "chat_response")

\* C5: a well-formed frame or chat message on a connection that stays open
\* is eventually answered on that connection with a message of the matching
\* type, whether the backend answers, fails or never answers
MatchingResponse ==
  \A c \in Calls :
     (Issued(c) /\ WellFormed(c))
       ~> (Settled(c) /\ (readyState[calls[c].ws] = OPEN => Answered(c)))

\* a well-formed chat request whose backend never answered, answered on its
\* open connection
ChatAnsweredOnTimeout ==
  \E c \in 1..Len(calls) :
     /\ calls[c].kind = "chat" /\ WellFormed(c)
     /\ calls[c].result[1] = "timeout"
     /\ readyState[calls[c].ws] = OPEN /\ Answered(c)

\* C6: when the deadline elapses first the client receives a failure of
\* that kind whose error is Timeout, and a late backend response adds no
\* message
TimeoutErrorIsTimeout ==
  \A c \in 1..Len(calls) :
     calls[c].result[1] = "timeout" =>
        /\ SentCount(c) <= 1
        /\ \A e \in EntriesOf(c) :
              outbox[e[1]][e[2]].data =
                 Obj(<< <<"type", Str(ResponseType(calls[c].kind))>>,
                        <<"error", Str("Timeout")>> >>)

\* what the client of call c is to be told about its outcome
OutcomeMember(c) ==
  IF calls[c].result[1] = "resolved"
  THEN <<"payload", calls[c].result[2]>>
  ELSE <<"error", Str(calls[c].result[2])>>

\* C7: every message a connection receives answers a request of that same
\* connection and carries the outcome of that request, for every order in
\* which the backend completes concurrent requests
OwnResultOnly ==
  \A w \in Sockets : \A i \in 1..Len(outbox[w]) :
     LET e == outbox[w][i] IN
     /\ calls[e.call].ws = w
     /\ Settled(e.call)
     /\ e.data[2][2] = OutcomeMember(e.call)

\* two connections had requests of one kind in flight together and the
\* later one completed and was delivered first
ConcurrentOutOfOrder ==
  \E c, d \in 1..Len(calls) :
     /\ c < d /\ calls[c].ws # calls[d].ws /\ calls[c].kind = calls[d].kind
     /\ Pending(c) /\ SentCount(d) = 1
     /\ readyState[calls[c].ws] = OPEN

\* C8: a message with invalid syntax or a missing or unrecognized type
\* closes nothing, stops nothing and produces no outbound message or call:
\* the gateway is as it was, ready for the next message
UndecodableIsDropped ==
  [][\A w \in Sockets, msg \in Undecodable :
        Message(w, msg) =>
           /\ readyState' = readyState /\ clients' = clients
           /\ outbox' = outbox /\ calls' = calls]_vars

\* a message has just been dropped on a connection that is open, registered
\* and has a request in flight
DroppedOnLiveConnection ==
  /\ lastDropped \in Sockets
  /\ readyState[lastDropped] = OPEN /\ Registered(lastDropped)
  /\ \E c \in 1..Len(calls) : calls[c].ws = lastDropped /\ Pending(c)

\* C9: a frame without non-empty image data or a chat without non-empty
\* query text is rejected at decoding: no backend call is issued for it
NoCallWithoutPayload ==
  \A c \in 1..Len(calls) : WellFormed(c)

\* C10: when the backend call succeeds and the connection is open the
\* client is written a message of the request's type whose payload is the
\* backend's body unchanged and that has no error member
PayloadVerbatim ==
  \A c \in 1..Len(calls) :
     calls[c].result[1] = "resolved" =>
        /\ readyState[calls[c].ws] = OPEN => SentCount(c) = 1
        /\ \A e \in EntriesOf(c) :
              /\ e[1] = calls[c].ws
              /\ outbox[e[1]][e[2]].data =
                   Obj(<< <<"type", Str(IF calls[c].kind = "recognition"
                                        THEN "recognition" ELSE "chat_response")>>,
                          <<"payload", calls[c].result[2]>> >>)

\* both kinds of request succeeded, one of them with the empty string as body
VerbatimBothKinds ==
  \E c, d \in 1..Len(calls) :
     /\ calls[c].kind = "recognition" /\ calls[d].kind = "chat"
     /\ calls[c].result = <<"resolved", Str("")>>
     /\ calls[d].result[1] = "resolved" /\ calls[d].result[2] # Str("")
     /\ SentCount(c) = 1 /\ SentCount(d) = 1

FifoWithinKind ==
  \A w \in Sockets : \A i, j \in 1..Len(outbox[w]) :
     (i < j /\ calls[outbox[w][i].call].kind = calls[outbox[w][j].call].kind)
        => outbox[w][i].call < outbox[w][j].call

\* msg is a frame or chat message, which the handler forwards
Forwardable(msg) == IsFrame(msg) \/ IsChat(msg)

\* C13: a pending request blocks neither the other lane of its connection
\* nor any other connection: while a recognition call is outstanding every
\* frame or chat message received on any connection is forwarded as a new
\* pending call of that connection (which can complete first, see the
\* witness)
PendingNeverBlocks ==
  [][\A w \in Sockets, msg \in RawMessages :
        (/\ Forwardable(msg) /\ Message(w, msg)
         /\ \E c \in 1..Len(calls) : calls[c].kind = "recognition" /\ Pending(c))
        => /\ Len(calls') = Len(calls) + 1
           /\ calls'[Len(calls')].ws = w
           /\ calls'[Len(calls')].kind = (IF IsFrame(msg) THEN "recognition" ELSE "chat")
           /\ calls'[Len(calls')].result = <<"pending">>]_vars

\* a chat request submitted after a recognition request of the same
\* connection was delivered while the recognition call is still outstanding
ChatOvertakesRecognition ==
  \E c, d \in 1..Len(calls) :
     /\ c < d /\ calls[c].ws = calls[d].ws
     /\ calls[c].kind = "recognition" /\ Pending(c)
     /\ calls[d].kind = "chat" /\ Settled(d) /\ SentCount(d) = 1

\* what connection v sees of the server: its socket, its registry entry, the
\* messages written to it and its calls
ViewOf(v) ==
  [state |-> readyState[v], registered |-> Registered(v), out |-> outbox[v],
   calls |-> {c \in 1..Len(calls) : calls[c].ws = v /\ Pending(c)}]

\* C14: a decode error, timeout, backend error or late result on one
\* connection leaves every other connection as it was: open, registered,
\* with the same pending requests and the same messages received
FailureIsLocal ==
  [][\A w \in Sockets :
        (\/ \E msg \in Undecodable : Message(w, msg)
         \/ \E c \in 1..Len(calls) :
               /\ calls[c].ws = w
               /\ \/ \E message \in BackendErrors : Fail(c, message)
                  \/ Timeout(c)
                  \/ LateResponse(c))
        => \A v \in Sockets \ {w} : ViewOf(v)' = ViewOf(v)]_vars

\* a call of one connection timed out and its late answer arrived while
\* another connection is open and registered with a request in flight
FailureBesidePending ==
  \E c, d \in 1..Len(calls) :
     /\ calls[c].ws # calls[d].ws
     /\ calls[c].result[1] = "timeout" /\ calls[c].late
     /\ Pending(d) /\ readyState[calls[d].ws] = OPEN /\ Registered(calls[d].ws)

\* C15: every connection is registered under an id that differs from every
\* id issued before, so that no registration overwrites another entry
IdsUnique ==
  \A v, w \in Sockets : v # w => ids[v] # ids[w]

\* C16: the registry holds exactly the connections that have connected and
\* have not had their close event
RegistryIsLiveSet ==
  clients = {<<ids[w], w>> : w \in {v \in Sockets : readyState[v] # CLOSED}}

ErrorIsLoggedAsError ==
  [][\A text \in LiveInbound :
        (/\ ClientParse(text) # SyntaxError
         /\ Get(ClientParse(text), "error") # Undefined
         /\ LiveReceive(text))
        => (Len(logs') > 0 /\ logs'[1][1] = "Error: ")]_liveVars

\* C19: the chat widget never has more than one query outstanding: chat
\* messages sent minus chat_response messages received is at most 1
ChatAtMostOneOutstanding ==
  chatSent - chatRecv <= 1

\* C20: in the chat widget waiting is true only while a query has been
\* transmitted and is unanswered
WaitingOnlyWhileOutstanding ==
  waiting => chatSent > chatRecv

\* the bot placeholder send() appends behind every query
Placeholder == [from |-> "bot", text |-> Str("...")]

\* positions of the message list that hold a placeholder
PlaceholdersIn(m) == {i \in 1..Len(m) : m[i] = Placeholder}

\* C21: the chat widget's message list holds at most one bot placeholder, the
\* placeholder is the last entry whenever there is one, and a received
\* chat_response takes the place of a placeholder instead of lengthening the
\* list
PlaceholderSingleAndLast ==
  /\ [](/\ Cardinality(PlaceholdersIn(messages)) <= 1
        /\ PlaceholdersIn(messages) \subseteq {Len(messages)})
  /\ [][\A text \in ChatInbound :
          ChatReceive(text) => Len(messages') = Len(messages)]_chatVars

\* C22: in the live-recognition client at most one capture interval is
\* active at any time, and no frame message is sent after stop() or the
\* unmount cleanup has run, whatever the interleaving of start(), stop() and
\* unmount
OneIntervalNoFrameAfterStop ==
  /\ [](Cardinality(timers) <= 1)
  /\ [][framesSent' > framesSent => ~halted]_liveVars

====
